---- MODULE Spec2Model ----
(***************************************************************************)
(* Model of the CAAT backend: the POST /api/assess handler                 *)
(* (backend/src/api/api.routes.ts), the scoring and projection engine      *)
(* (backend/src/services/services.scoring.ts), the request and response    *)
(* schemas (backend/src/schemas/schemas.assessment.ts), the configuration  *)
(* (backend/src/config/config.ts) and the recommendation enhancer          *)
(* (backend/src/services/services.ai.ts).                                  *)
(*                                                                         *)
(* Numbers.  The code computes with IEEE doubles; the model computes the   *)
(* same expressions exactly, on scaled integers:                           *)
(*   feet            in thousandths of a foot          (FeetScale)         *)
(*   sub-scores      in units of 1/SubScale                                *)
(*   weighted scores in units of 1/ScoreScale                              *)
(* The one non-finite value the code can produce, NaN (0/0 on an empty     *)
(* materials list), is modelled explicitly: a number is a record           *)
(* [nan, v] and comparisons with NaN are false, as in JavaScript.          *)
(***************************************************************************)
EXTENDS Integers, Sequences, FiniteSets, TLC

\* ------------------------------------------------------------------ bounds
\* longest materials list drawn as input
MaxMaterials == 2

\* ------------------------------------------------------------------ scales
RECURSIVE Fact(_)
Fact(n) == IF n <= 1 THEN 1 ELSE n * Fact(n - 1)

\* every list length up to MaxMaterials divides MeanDen, so a mean is exact
MeanDen == Fact(MaxMaterials)
FeetScale == 10 * 100
SubScale == 100 * MeanDen
ScoreScale == SubScale * 10 * 100

Num(x) == [nan |-> FALSE, v |-> x]
NaN == [nan |-> TRUE, v |-> 0]
\* JavaScript a < b on numbers: false as soon as one side is NaN
Lt(a, b) == ~a.nan /\ ~b.nan /\ a.v < b.v
Le(a, b) == ~a.nan /\ ~b.nan /\ a.v <= b.v
Min(a, b) == IF a < b THEN a ELSE b
Max(a, b) == IF a > b THEN a ELSE b

\* ----------------------------------------------------- schemas.assessment
FoundationType == {"SLAB_ON_GRADE", "PIER_AND_BEAM", "PILE_FOUNDATION", "ELEVATED_FOUNDATION"}
MaterialType == {"CONCRETE", "STEEL_FRAME", "WOOD_FRAME", "MASONRY", "MIXED"}
RoofMaterialType == {"METAL", "ASPHALT_SHINGLE", "TILE"}
MitigationFeature == {"FLOOD_VENTS", "WATERPROOFING", "BACKFLOW_PREVENTION", "ELEVATED_UTILITIES", "FLOOD_BARRIERS"}

\* z.array(E): every element is a member of the enum; any length, also 0
ZArray(s, E) == \A i \in 1..Len(s) : s[i] \in E

\* a designDescription: absent from the body, or a string, of which the
\* model keeps the length
NoDescription == [defined |-> FALSE, length |-> 0]
Description(n) == [defined |-> TRUE, length |-> n]

\* z.string().optional(): undefined, or a string of any length
ZOptionalString(d) == ~d.defined \/ d.length >= 0

\* the request schema with z.number() in place of z.number().min(0) for
\* elevationAboveBFE
AssessmentRequestSchemaNoMinimum(b) ==
    /\ b.foundationType \in FoundationType
    /\ b.currentBFE >= 0
    /\ ZArray(b.materials, MaterialType)
    /\ b.roofMaterial \in RoofMaterialType
    /\ ZArray(b.mitigationFeatures, MitigationFeature)
    /\ b.utilityProtection \in BOOLEAN
    /\ ZOptionalString(b.designDescription)

\* AssessmentRequestSchema.parse succeeds on this body
AssessmentRequestSchema(b) ==
    /\ b.foundationType \in FoundationType
    /\ b.elevationAboveBFE >= 0
    /\ b.currentBFE >= 0
    /\ ZArray(b.materials, MaterialType)
    /\ b.roofMaterial \in RoofMaterialType
    /\ ZArray(b.mitigationFeatures, MitigationFeature)
    /\ b.utilityProtection \in BOOLEAN
    /\ ZOptionalString(b.designDescription)

\* z.number(): a number that is not NaN
ZNumber(x) == ~x.nan

\* AssessmentResponseSchema.parse succeeds on this response object
AssessmentResponseSchema(r) ==
    /\ ZNumber(r.currentScore)
    /\ \A i \in 1..Len(r.timeline) : ZNumber(r.timeline[i].score)

\* ------------------------------------------------------- services.scoring
foundationScores ==
    [f \in FoundationType |->
        CASE f = "SLAB_ON_GRADE" -> 40
          [] f = "PIER_AND_BEAM" -> 60
          [] f = "PILE_FOUNDATION" -> 80
          [] f = "ELEVATED_FOUNDATION" -> 100]

materialScores ==
    [m \in MaterialType |->
        CASE m = "CONCRETE" -> 100
          [] m = "STEEL_FRAME" -> 80
          [] m = "WOOD_FRAME" -> 60
          [] m = "MASONRY" -> 70
          [] m = "MIXED" -> 50]

roofMaterialScores ==
    [r \in RoofMaterialType |->
        CASE r = "METAL" -> 80
          [] r = "ASPHALT_SHINGLE" -> 50
          [] r = "TILE" -> 75]

mitigationFeatureScores ==
    [m \in MitigationFeature |->
        CASE m = "FLOOD_VENTS" -> 20
          [] m = "WATERPROOFING" -> 25
          [] m = "BACKFLOW_PREVENTION" -> 20
          [] m = "ELEVATED_UTILITIES" -> 20
          [] m = "FLOOD_BARRIERS" -> 15]

\* array.reduce((sum, x) => sum + table[x], 0)
RECURSIVE Reduce(_, _)
Reduce(s, table) ==
    IF s = <<>> THEN 0 ELSE table[Head(s)] + Reduce(Tail(s), table)

\* elevationScore without the cap at 100
elevationScoreUncapped(request) ==
    (request.elevationAboveBFE * 10 * SubScale) \div FeetScale

\* Math.min(request.elevationAboveBFE * 10, 100), in units of 1/SubScale
elevationScore(request) ==
    Min((request.elevationAboveBFE * 10 * SubScale) \div FeetScale, 100 * SubScale)

\* reduce(...) / request.materials.length, in units of 1/SubScale; 0/0 is NaN
materialsScore(request) ==
    IF Len(request.materials) = 0
    THEN NaN
    ELSE Num((Reduce(request.materials, materialScores) * SubScale) \div Len(request.materials))

\* Math.min(reduce(...), 100), in units of 1/SubScale
mitigationScore(request) ==
    Min(Reduce(request.mitigationFeatures, mitigationFeatureScores), 100) * SubScale

utilityScore(request) == (IF request.utilityProtection THEN 100 ELSE 0) * SubScale

\* combinedMaterialsScore that leaves the roof out
combinedMaterialsScoreNoRoof(request) ==
    IF materialsScore(request).nan THEN NaN ELSE Num(materialsScore(request).v * 10)

\* combinedMaterialsScore with the two shares exchanged: 30% structural,
\* 70% roof
combinedMaterialsScoreSwapped(request) ==
    IF materialsScore(request).nan
    THEN NaN
    ELSE Num(materialsScore(request).v * 3 + roofMaterialScores[request.roofMaterial] * SubScale * 7)

\* (materialsScore * 0.7) + (roofMaterialScore * 0.3), in units of 1/(10*SubScale)
combinedMaterialsScore(request) ==
    IF materialsScore(request).nan
    THEN NaN
    ELSE Num(materialsScore(request).v * 7 + roofMaterialScores[request.roofMaterial] * SubScale * 3)

\* the weighted total, in units of 1/ScoreScale; weights are in percent
calculateCurrentScore(request, cfg) ==
    IF combinedMaterialsScore(request).nan
    THEN NaN
    ELSE Num(  elevationScore(request) * 10 * cfg.scoringWeights.elevation
             + foundationScores[request.foundationType] * SubScale * 10 * cfg.scoringWeights.foundationType
             + combinedMaterialsScore(request).v * cfg.scoringWeights.materials
             + mitigationScore(request) * 10 * cfg.scoringWeights.mitigationFeatures
             + utilityScore(request) * 10 * cfg.scoringWeights.utilityProtection)

\* ----------------------------------------------------------- config.ts
\* the weights 0.40, 0.20, 0.15, 0.15, 0.10, in percent
scoringWeights ==
    [elevation |-> 40, foundationType |-> 20, materials |-> 15,
     mitigationFeatures |-> 15, utilityProtection |-> 10]

thresholds == [criticalScore |-> 60, warningScore |-> 75]

simulationYears == <<2025, 2030, 2035, 2040, 2045, 2050, 2055>>

\* annualRiseRate 0.1 ft/yr, in thousandths of a foot per year
annualRiseRate == FeetScale \div 10

sourceConfig ==
    [scoringWeights |-> scoringWeights,
     baselineFloodParameters |->
        [annualRiseRate |-> annualRiseRate, simulationYears |-> simulationYears],
     thresholds |-> thresholds]

\* ------------------------------------------------------ number formatting
\* Number(x.toFixed(digits)) on thousandths: nearest multiple of `unit`,
\* a tie going to the larger magnitude; the sign is handled apart
RoundTo(x, unit) ==
    IF x >= 0 THEN ((x + unit \div 2) \div unit) * unit
              ELSE -((((-x) + unit \div 2) \div unit) * unit)
toFixed2(x) == RoundTo(x, FeetScale \div 100)
toFixed1(x) == RoundTo(x, FeetScale \div 10)

\* ------------------------------------------------- recommendation lines
\* a recommendation string: its template, the number interpolated into it
\* (thousandths of a foot, 0 when the template has none) and, for a line
\* that came from the language model, its characters
Line(kind) == [kind |-> kind, bfe |-> 0, text |-> <<>>]
CRITICAL == Line("CRITICAL")
WARNING == Line("WARNING")
ElevateLine(projectedBFE) == [kind |-> "ELEVATE", bfe |-> toFixed1(projectedBFE), text |-> <<>>]
FoundationLine == Line("FOUNDATION")
MaterialsLine == Line("MATERIALS")
RoofLine == Line("ROOF")
MetalPairLine == Line("METAL_PAIR")
UtilityLine == Line("UTILITY")
AILine(chars) == [kind |-> "AI", bfe |-> 0, text |-> chars]

\* if (cond) recommendations.push(line)
PushIf(cond, line) == IF cond THEN <<line>> ELSE <<>>

\* array.includes(x)
Includes(s, x) == \E i \in 1..Len(s) : s[i] = x

\* generateRecommendations with the severity comparisons turned around
\* (score > threshold)
generateRecommendationsSeverityFlipped(request, projectedBFE, cfg) ==
    LET score == calculateCurrentScore(request, cfg)
        severity ==
            IF Lt(Num(cfg.thresholds.warningScore * ScoreScale), score)
            THEN <<CRITICAL>>
            ELSE IF Lt(Num(cfg.thresholds.criticalScore * ScoreScale), score)
                 THEN <<WARNING>>
                 ELSE <<>>
    IN  severity
        \o PushIf(request.elevationAboveBFE < 3 * FeetScale, ElevateLine(projectedBFE))
        \o PushIf(request.foundationType = "SLAB_ON_GRADE", FoundationLine)
        \o PushIf(Includes(request.materials, "WOOD_FRAME"), MaterialsLine)
        \o PushIf(request.roofMaterial = "ASPHALT_SHINGLE", RoofLine)
        \o PushIf(request.roofMaterial = "METAL" /\ request.foundationType = "SLAB_ON_GRADE",
                  MetalPairLine)
        \o PushIf(~request.utilityProtection, UtilityLine)

\* generateRecommendations with the elevation rule written as <= 3
generateRecommendationsInclusive(request, projectedBFE, cfg) ==
    LET score == calculateCurrentScore(request, cfg)
        severity ==
            IF Lt(score, Num(cfg.thresholds.criticalScore * ScoreScale))
            THEN <<CRITICAL>>
            ELSE IF Lt(score, Num(cfg.thresholds.warningScore * ScoreScale))
                 THEN <<WARNING>>
                 ELSE <<>>
    IN  severity
        \o PushIf(request.elevationAboveBFE <= 3 * FeetScale, ElevateLine(projectedBFE))
        \o PushIf(request.foundationType = "SLAB_ON_GRADE", FoundationLine)
        \o PushIf(Includes(request.materials, "WOOD_FRAME"), MaterialsLine)
        \o PushIf(request.roofMaterial = "ASPHALT_SHINGLE", RoofLine)
        \o PushIf(request.roofMaterial = "METAL" /\ request.foundationType = "SLAB_ON_GRADE",
                  MetalPairLine)
        \o PushIf(~request.utilityProtection, UtilityLine)

generateRecommendations(request, projectedBFE, cfg) ==
    LET score == calculateCurrentScore(request, cfg)
        severity ==
            IF Lt(score, Num(cfg.thresholds.criticalScore * ScoreScale))
            THEN <<CRITICAL>>
            ELSE IF Lt(score, Num(cfg.thresholds.warningScore * ScoreScale))
                 THEN <<WARNING>>
                 ELSE <<>>
    IN  severity
        \o PushIf(request.elevationAboveBFE < 3 * FeetScale, ElevateLine(projectedBFE))
        \o PushIf(request.foundationType = "SLAB_ON_GRADE", FoundationLine)
        \o PushIf(Includes(request.materials, "WOOD_FRAME"), MaterialsLine)
        \o PushIf(request.roofMaterial = "ASPHALT_SHINGLE", RoofLine)
        \o PushIf(request.roofMaterial = "METAL" /\ request.foundationType = "SLAB_ON_GRADE",
                  MetalPairLine)
        \o PushIf(~request.utilityProtection, UtilityLine)

\* ------------------------------------------------------ generateTimeline
\* insert x into an ascending sequence
RECURSIVE Insert(_, _)
Insert(x, s) ==
    IF s = <<>> THEN <<x>>
    ELSE IF x <= Head(s) THEN <<x>> \o s
         ELSE <<Head(s)>> \o Insert(x, Tail(s))

\* the year list used as configured, not sorted
SortAscendingSkipped(s) == s

\* the comparator turned around: sort((a, b) => b - a)
SortDescending(s) ==
    LET values == {s[k] : k \in 1..Len(s)}
    IN  [i \in 1..Len(s) |->
            CHOOSE y \in values : Cardinality({z \in values : z > y}) = i - 1]

\* [...years].sort((a, b) => a - b)
RECURSIVE SortAscending(_)
SortAscending(s) ==
    IF s = <<>> THEN <<>> ELSE Insert(Head(s), SortAscending(Tail(s)))

\* the loop body with the rise rate of the doc comment (3.6 inches a year)
\* written into it, in place of the configured one
timelineEntryFixedRate(request, year, cfg) ==
    LET yearsFrom2025 == year - 2025
        projectedBFE == request.currentBFE + yearsFrom2025 * ((3 * FeetScale) \div 10)
        bfeRise == projectedBFE - request.currentBFE
        adjustedRequest ==
            [request EXCEPT !.elevationAboveBFE = Max(0, request.elevationAboveBFE - bfeRise)]
    IN  [year |-> year,
         projectedBFE |-> toFixed2(projectedBFE),
         score |-> calculateCurrentScore(adjustedRequest, cfg),
         recommendations |-> generateRecommendations(adjustedRequest, projectedBFE, cfg)]

\* the loop body without Math.max(0, ...) around the adjusted elevation
timelineEntryUnclamped(request, year, cfg) ==
    LET yearsFrom2025 == year - 2025
        projectedBFE == request.currentBFE
                        + yearsFrom2025 * cfg.baselineFloodParameters.annualRiseRate
        bfeRise == projectedBFE - request.currentBFE
        adjustedRequest ==
            [request EXCEPT !.elevationAboveBFE = request.elevationAboveBFE - bfeRise]
    IN  [year |-> year,
         projectedBFE |-> toFixed2(projectedBFE),
         score |-> calculateCurrentScore(adjustedRequest, cfg),
         recommendations |-> generateRecommendations(adjustedRequest, projectedBFE, cfg)]

\* the loop body counting the years backwards (2025 - year)
timelineEntryFallingBFE(request, year, cfg) ==
    LET yearsFrom2025 == 2025 - year
        projectedBFE == request.currentBFE
                        + yearsFrom2025 * cfg.baselineFloodParameters.annualRiseRate
        bfeRise == projectedBFE - request.currentBFE
        adjustedRequest ==
            [request EXCEPT !.elevationAboveBFE = Max(0, request.elevationAboveBFE - bfeRise)]
    IN  [year |-> year,
         projectedBFE |-> toFixed2(projectedBFE),
         score |-> calculateCurrentScore(adjustedRequest, cfg),
         recommendations |-> generateRecommendations(adjustedRequest, projectedBFE, cfg)]

\* the body of the for loop: one timeline entry
timelineEntry(request, year, cfg) ==
    LET yearsFrom2025 == year - 2025
        projectedBFE == request.currentBFE
                        + yearsFrom2025 * cfg.baselineFloodParameters.annualRiseRate
        bfeRise == projectedBFE - request.currentBFE
        adjustedRequest ==
            [request EXCEPT !.elevationAboveBFE = Max(0, request.elevationAboveBFE - bfeRise)]
    IN  [year |-> year,
         projectedBFE |-> toFixed2(projectedBFE),
         score |-> calculateCurrentScore(adjustedRequest, cfg),
         recommendations |-> generateRecommendations(adjustedRequest, projectedBFE, cfg)]

generateTimeline(request, cfg) ==
    LET years == SortAscending(cfg.baselineFloodParameters.simulationYears)
    IN  [i \in 1..Len(years) |-> timelineEntry(request, years[i], cfg)]

\* generateTimeline writing the last year's adjusted elevation into its
\* argument instead of into a copy
timelineRequestEffectInPlace(request, cfg) ==
    LET years == SortAscending(cfg.baselineFloodParameters.simulationYears)
        rise == (years[Len(years)] - 2025) * cfg.baselineFloodParameters.annualRiseRate
    IN  IF years = <<>> THEN request
        ELSE [request EXCEPT !.elevationAboveBFE = Max(0, request.elevationAboveBFE - rise)]

\* generateTimeline moving the request's baseline along with the projection
\* (request.currentBFE = projectedBFE in the loop)
timelineRequestEffectRebaselined(request, cfg) ==
    LET years == SortAscending(cfg.baselineFloodParameters.simulationYears)
        rise == (years[Len(years)] - 2025) * cfg.baselineFloodParameters.annualRiseRate
    IN  IF years = <<>> THEN request
        ELSE [request EXCEPT !.currentBFE = request.currentBFE + rise]

\* what generateTimeline leaves in the request object it was handed: each
\* adjustedRequest is a fresh object ({...request, ...}), the argument is
\* never assigned
timelineRequestEffect(request, cfg) == request

\* generateTimeline sorting config's own year list (no copy)
timelineConfigEffectSortInPlace(cfg) ==
    [cfg EXCEPT !.baselineFloodParameters.simulationYears = SortAscending(@)]

\* what generateTimeline leaves in the shared config: the year list is
\* copied ([...simulationYears]) before it is sorted
timelineConfigEffect(cfg) == cfg

\* ------------------------------------------------------------ services.ai
\* a string is a sequence of characters; NL is the line feed
NL == "\n"
Whitespace == {" ", NL}
\* the characters of the class [-\u2022*]; "u2022" stands for the bullet
Bullets == {"-", "u2022", "*"}

\* response.split('\n'): the pieces between line feeds, at least one piece
RECURSIVE Split(_)
Split(str) ==
    IF str = <<>> THEN << <<>> >>
    ELSE LET rest == Split(Tail(str))
         IN  IF Head(str) = NL
             THEN << <<>> >> \o rest
             ELSE << <<Head(str)>> \o Head(rest) >> \o Tail(rest)

RECURSIVE TrimStart(_)
TrimStart(str) ==
    IF str # <<>> /\ Head(str) \in Whitespace THEN TrimStart(Tail(str)) ELSE str

RECURSIVE TrimEnd(_)
TrimEnd(str) ==
    IF str # <<>> /\ str[Len(str)] \in Whitespace
    THEN TrimEnd(SubSeq(str, 1, Len(str) - 1))
    ELSE str

\* line.trim()
Trim(str) == TrimEnd(TrimStart(str))

\* line.replace(/^[-\u2022*]\s*/, ''): a leading bullet and the blanks after it
StripBullet(str) ==
    IF str # <<>> /\ Head(str) \in Bullets THEN TrimStart(Tail(str)) ELSE str

\* .filter(line => line.trim().length > 0)
RECURSIVE FilterNonBlank(_)
FilterNonBlank(lines) ==
    IF lines = <<>> THEN <<>>
    ELSE (IF Len(Trim(Head(lines))) > 0 THEN <<Head(lines)>> ELSE <<>>)
         \o FilterNonBlank(Tail(lines))

\* split, filter, map of a response string
parseResponse(response) ==
    LET kept == FilterNonBlank(Split(response))
    IN  [i \in 1..Len(kept) |-> AILine(Trim(StripBullet(kept[i])))]

\* the outcomes of openai.chat.completions.create as the service sees them:
\* the call rejects (network error, timeout, API error), the completion has
\* no message content (no choices, null content), or it carries a string
Throws == [type |-> "throw", content |-> <<>>]
NoContent == [type |-> "nocontent", content |-> <<>>]
Content(str) == [type |-> "content", content |-> str]

\* the try block throws: the call rejected, or !response (null, undefined
\* or the empty string)
aiFails(outcome) ==
    \/ outcome.type = "throw"
    \/ outcome.type = "nocontent"
    \/ outcome.type = "content" /\ outcome.content = <<>>

generateEnhancedRecommendations(outcome, baseRecommendations) ==
    IF aiFails(outcome)
    THEN baseRecommendations
    ELSE parseResponse(outcome.content)

\* ------------------------------------------------------------------ inputs
\* elevations above BFE, thousandths of a foot: on the ground, half a foot,
\* the 3 ft rule boundary, the 10 ft saturation point and one foot beyond
Elevations == {0, FeetScale \div 2, 3 * FeetScale, 10 * FeetScale, 11 * FeetScale}

\* site base flood elevations: 0 ft and 8.125 ft
CurrentBFEs == {0, 8 * FeetScale + FeetScale \div 8}

\* materials lists: every single material, and every list of up to
\* MaxMaterials entries (duplicates included) over the best material, the
\* one the wood rule looks for and the one the frontend sends
ListedMaterials == {"CONCRETE", "WOOD_FRAME", "MIXED"}
MaterialLists ==
    {<<m>> : m \in MaterialType} \cup UNION {[1..n -> ListedMaterials] : n \in 0..MaxMaterials}

AllFeatures ==
    <<"FLOOD_VENTS", "WATERPROOFING", "BACKFLOW_PREVENTION", "ELEVATED_UTILITIES", "FLOOD_BARRIERS">>

\* no feature, the two the frontend sends, all five (sum 100), and all
\* five with one repeated (sum 125)
MitigationLists ==
    {<<>>, <<"FLOOD_VENTS", "ELEVATED_UTILITIES">>, AllFeatures, AllFeatures \o <<"WATERPROOFING">>}

ValidBodies ==
    [foundationType : FoundationType,
     elevationAboveBFE : Elevations,
     currentBFE : CurrentBFEs,
     materials : MaterialLists,
     roofMaterial : RoofMaterialType,
     mitigationFeatures : MitigationLists,
     utilityProtection : BOOLEAN,
     designDescription : {NoDescription}]

Scenario1 ==
    [foundationType |-> "ELEVATED_FOUNDATION", elevationAboveBFE |-> 10 * FeetScale,
     currentBFE |-> 0, materials |-> <<"CONCRETE">>, roofMaterial |-> "METAL",
     mitigationFeatures |-> AllFeatures, utilityProtection |-> TRUE,
     designDescription |-> NoDescription]

\* bodies the request schema rejects: one field of a good body made bad
InvalidBodies ==
    {[Scenario1 EXCEPT !.foundationType = "amphibious"],
     [Scenario1 EXCEPT !.elevationAboveBFE = -FeetScale],
     [Scenario1 EXCEPT !.currentBFE = -FeetScale],
     [Scenario1 EXCEPT !.materials = <<"CONCRETE", "BAMBOO">>],
     [Scenario1 EXCEPT !.roofMaterial = "THATCH"],
     [Scenario1 EXCEPT !.mitigationFeatures = <<"SANDBAGS">>]}

\* the longest description the frontend form lets through
DescriptionLimit == 1000

\* bodies that carry a description: empty, at the limit, one beyond it
DescribedBodies ==
    {[Scenario1 EXCEPT !.designDescription = Description(n)] :
        n \in {0, DescriptionLimit, DescriptionLimit + 1}}

Bodies == ValidBodies \cup DescribedBodies \cup InvalidBodies

\* the year list as configured, and the same years in another order
Configs ==
    {sourceConfig,
     [sourceConfig EXCEPT !.baselineFloodParameters.simulationYears =
        <<2040, 2025, 2055, 2030, 2050, 2035, 2045>>]}

AIOutcomes ==
    {Throws,
     NoContent,
     Content(<<>>),
     Content(<<NL>>),
     Content(<<" ", NL, " ">>),
     Content(<<"-">>),
     Content(<<"-", " ", "a", NL, "*", "b", " ">>),
     Content(<<"a", NL, NL, " ", "b">>)}

\* ------------------------------------------------------------------- state
VARIABLES
    config,                  \* the shared config object
    pc,                      \* where the POST /api/assess handler stands
    body,                    \* req.body
    validatedRequest,        \* the parsed request object
    currentScore,
    timeline,
    baseRecommendations,
    aiOutcome,               \* how the external call settled
    enhancedRecommendations,
    response,                \* what was sent with res.json
    calls,                   \* calls made while handling this request
    inflight,                \* the handler invocations in flight side by side
    formData,                \* the page's form state
    page,                    \* the page's other React state
    submit,                  \* the handleSubmit invocation
    fetcher,                 \* the fetchWithFallback invocation
    health                   \* the checkBackendHealth invocation

vars == <<config, pc, body, validatedRequest, currentScore, timeline,
          baseRecommendations, aiOutcome, enhancedRecommendations, response, calls,
          inflight, formData, page, submit, fetcher, health>>

\* the server's variables, which no step of the browser touches
serverVars == <<config, pc, body, validatedRequest, currentScore, timeline,
                baseRecommendations, aiOutcome, enhancedRecommendations, response, calls,
                inflight>>

\* the browser's variables, which no step of the server touches
frontendVars == <<formData, page, submit, fetcher, health>>

NoBody ==
    [foundationType |-> "", elevationAboveBFE |-> 0, currentBFE |-> 0, materials |-> <<>>,
     roofMaterial |-> "", mitigationFeatures |-> <<>>, utilityProtection |-> FALSE,
     designDescription |-> NoDescription]

NoResponse ==
    [status |-> 0, currentScore |-> NaN, timeline |-> <<>>,
     overallRecommendations |-> <<>>, details |-> {}]

NoOutcome == [type |-> "none", content |-> <<>>]

NoCalls == [score |-> 0, timeline |-> 0, ai |-> 0, emptyMean |-> FALSE]

\* paths of the issues of the ZodError thrown by AssessmentRequestSchema.parse
requestIssues(b) ==
      (IF b.foundationType \in FoundationType THEN {} ELSE {"foundationType"})
 \cup (IF b.elevationAboveBFE >= 0 THEN {} ELSE {"elevationAboveBFE"})
 \cup (IF b.currentBFE >= 0 THEN {} ELSE {"currentBFE"})
 \cup (IF ZArray(b.materials, MaterialType) THEN {} ELSE {"materials"})
 \cup (IF b.roofMaterial \in RoofMaterialType THEN {} ELSE {"roofMaterial"})
 \cup (IF ZArray(b.mitigationFeatures, MitigationFeature) THEN {} ELSE {"mitigationFeatures"})

\* paths of the issues of the ZodError thrown by AssessmentResponseSchema.parse
responseIssues(r) ==
      (IF ZNumber(r.currentScore) THEN {} ELSE {"currentScore"})
 \cup (IF \A i \in 1..Len(r.timeline) : ZNumber(r.timeline[i].score) THEN {} ELSE {"timeline.score"})

\* res.status(400).json({error: 'Invalid request data', details})
BadRequest(issues) == [NoResponse EXCEPT !.status = 400, !.details = issues]

\* res.status(500).json({error: 'Internal server error', ...})
InternalError == [NoResponse EXCEPT !.status = 500]

\* ------------------------------------------------- requests side by side
\* how many requests the server handles at the same time
NumRequests == 2
Requests == 1..NumRequests

\* the locals of one invocation of the handler
IdleSlot ==
    [pc |-> "idle", body |-> NoBody, validatedRequest |-> NoBody, currentScore |-> NaN,
     timeline |-> <<>>, baseRecommendations |-> <<>>, response |-> NoResponse]

\* ---------------------------------------------------- the browser's state
\* lib.api.ts: the two backends
PRODUCTION_URL == "https://caat-climate-adaptive-architecture-tool-production.up.railway.app"
LOCALHOST_URL == "http://localhost:8080"
\* NEXT_PUBLIC_BACKEND_URL is not set in the build
getBackendUrl == PRODUCTION_URL
getFallbackUrl == LOCALHOST_URL

\* useState initial values of page.tsx; a number field holds the characters
\* typed into it, the description is kept by its length; breakawayWalls and
\* yearBuilt are read by neither validateForm nor handleSubmit
initialFormData ==
    [foundationType |-> "", siteElevation |-> <<"0">>, baseFloodElevation |-> <<"0">>,
     roofMaterial |-> "", floodVents |-> FALSE, utilitiesProtected |-> FALSE,
     floodZone |-> "", designDescription |-> 0]

NoResult == [url |-> "", status |-> 0]

\* backendConnected is boolean | null, written "true", "false", "null"
initialPage ==
    [isLoading |-> FALSE, loadingStep |-> "", result |-> NoResult,
     backendConnected |-> "null", usingFallback |-> FALSE, currentBackendUrl |-> "",
     validationErrors |-> <<>>, toast |-> ""]

\* how a fetch settles: a Response, or a rejection (TypeError for a network
\* failure, AbortError when the timer aborted it)
NoSettlement == [kind |-> "none", status |-> 0, error |-> ""]
Resolves(status) == [kind |-> "response", status |-> status, error |-> ""]
Rejects(name) == [kind |-> "reject", status |-> 0, error |-> name]

\* a Response as the caller holds it
NoReply == [url |-> "", status |-> 0]
Reply(url, settlement) == [url |-> url, status |-> settlement.status]
\* Response.ok
Ok(reply) == reply.status \in 200..299

\* an Error object: where it was created and what it says
NoError == [attempt |-> "", message |-> "", status |-> 0]
\* new Error(`HTTP ${response.status}: ...`) thrown in an attempt, or the
\* rejection of that attempt's fetch
ErrorOf(attempt, settlement) ==
    IF settlement.kind = "response"
    THEN [attempt |-> attempt, message |-> "HTTP", status |-> settlement.status]
    ELSE [attempt |-> attempt, message |-> settlement.error, status |-> 0]

idleSubmit == [pc |-> "idle", backendRequest |-> NoBody]

idleFetcher ==
    [pc |-> "idle", sent |-> <<>>, primary |-> NoSettlement, fallback |-> NoSettlement,
     returned |-> NoReply, thrown |-> NoError]

NoHealthResult == [connected |-> FALSE, url |-> "", usingFallback |-> FALSE]

unmountedHealth ==
    [pc |-> "unmounted", probes |-> <<>>, primary |-> NoSettlement,
     fallback |-> NoSettlement, result |-> NoHealthResult, threw |-> FALSE]

\* the page has not been opened
InitPage ==
    /\ formData = initialFormData
    /\ page = initialPage
    /\ submit = idleSubmit
    /\ fetcher = idleFetcher
    /\ health = unmountedHealth

\* no request is being handled
InitHandler ==
    /\ pc = "idle"
    /\ body = NoBody
    /\ validatedRequest = NoBody
    /\ currentScore = NaN
    /\ timeline = <<>>
    /\ baseRecommendations = <<>>
    /\ aiOutcome = NoOutcome
    /\ enhancedRecommendations = <<>>
    /\ response = NoResponse
    /\ calls = NoCalls
    /\ inflight = [i \in Requests |-> IdleSlot]

Init == config \in Configs /\ InitHandler /\ InitPage

\* a POST /api/assess request arrives
Receive(b) ==
    /\ pc = "idle"
    /\ pc' = "received"
    /\ body' = b
    /\ validatedRequest' = NoBody
    /\ currentScore' = NaN
    /\ timeline' = <<>>
    /\ baseRecommendations' = <<>>
    /\ aiOutcome' = NoOutcome
    /\ enhancedRecommendations' = <<>>
    /\ response' = NoResponse
    /\ calls' = NoCalls
    /\ UNCHANGED config
    /\ UNCHANGED <<inflight, frontendVars>>

\* const validatedRequest = AssessmentRequestSchema.parse(req.body), and the
\* catch branch for the ZodError it throws
Validate ==
    /\ pc = "received"
    /\ IF AssessmentRequestSchema(body)
       THEN /\ validatedRequest' = body
            /\ pc' = "validated"
            /\ UNCHANGED response
       ELSE /\ response' = BadRequest(requestIssues(body))
            /\ pc' = "responded"
            /\ UNCHANGED validatedRequest
    /\ UNCHANGED <<config, body, currentScore, timeline, baseRecommendations,
                   aiOutcome, enhancedRecommendations, calls>>
    /\ UNCHANGED <<inflight, frontendVars>>

\* const currentScore = ScoringService.calculateCurrentScore(validatedRequest)
Score ==
    /\ pc = "validated"
    /\ currentScore' = calculateCurrentScore(validatedRequest, config)
    /\ calls' = [calls EXCEPT !.score = @ + 1,
                              !.emptyMean = @ \/ Len(validatedRequest.materials) = 0]
    /\ pc' = "scored"
    /\ UNCHANGED <<config, body, validatedRequest, timeline, baseRecommendations,
                   aiOutcome, enhancedRecommendations, response>>
    /\ UNCHANGED <<inflight, frontendVars>>

\* const timeline = ScoringService.generateTimeline(validatedRequest);
\* const baseRecommendations = timeline[0].recommendations (a TypeError, so
\* a 500, when the timeline is empty)
Timeline ==
    /\ pc = "scored"
    /\ LET tl == generateTimeline(validatedRequest, config)
       IN  /\ timeline' = tl
           /\ IF Len(tl) > 0
              THEN /\ baseRecommendations' = tl[1].recommendations
                   /\ pc' = "timelined"
                   /\ UNCHANGED response
              ELSE /\ response' = InternalError
                   /\ pc' = "responded"
                   /\ UNCHANGED baseRecommendations
    /\ validatedRequest' = timelineRequestEffect(validatedRequest, config)
    /\ config' = timelineConfigEffect(config)
    /\ calls' = [calls EXCEPT !.timeline = @ + 1,
                              !.score = @ + 2 * Len(config.baselineFloodParameters.simulationYears),
                              !.emptyMean = @ \/ (Len(validatedRequest.materials) = 0
                                   /\ Len(config.baselineFloodParameters.simulationYears) > 0)]
    /\ UNCHANGED <<body, currentScore, aiOutcome, enhancedRecommendations>>
    /\ UNCHANGED <<inflight, frontendVars>>

\* AIService.generateEnhancedRecommendations builds the prompt and issues
\* openai.chat.completions.create; the handler is suspended at the await
CallAI ==
    /\ pc = "timelined"
    /\ calls' = [calls EXCEPT !.ai = @ + 1]
    /\ pc' = "awaiting"
    /\ UNCHANGED <<config, body, validatedRequest, currentScore, timeline,
                   baseRecommendations, aiOutcome, enhancedRecommendations, response>>
    /\ UNCHANGED <<inflight, frontendVars>>

\* AIReturn with a catch block that issues the call again after a failure
AIReturnRetrying(outcome) ==
    /\ pc = "awaiting"
    /\ LET enhanced == generateEnhancedRecommendations(outcome, baseRecommendations)
           r == [status |-> 200, currentScore |-> currentScore, timeline |-> timeline,
                 overallRecommendations |-> enhanced, details |-> {}]
       IN  IF aiFails(outcome)
           THEN /\ pc' = "timelined"
                /\ aiOutcome' = outcome
                /\ UNCHANGED <<enhancedRecommendations, response>>
           ELSE /\ enhancedRecommendations' = enhanced
                /\ aiOutcome' = outcome
                /\ response' = IF AssessmentResponseSchema(r) THEN r
                               ELSE BadRequest(responseIssues(r))
                /\ pc' = "responded"
    /\ UNCHANGED <<config, body, validatedRequest, currentScore, timeline,
                   baseRecommendations, calls>>
    /\ UNCHANGED <<inflight, frontendVars>>

\* the external call settles, generateEnhancedRecommendations returns and
\* the handler runs on to its answer: AssessmentResponseSchema.parse({...}),
\* res.json(response), or the catch branch for the ZodError the response
\* schema throws
AIReturn(outcome) ==
    /\ pc = "awaiting"
    /\ LET enhanced == generateEnhancedRecommendations(outcome, baseRecommendations)
           r == [status |-> 200, currentScore |-> currentScore, timeline |-> timeline,
                 overallRecommendations |-> enhanced, details |-> {}]
       IN  /\ enhancedRecommendations' = enhanced
           /\ aiOutcome' = outcome
           /\ response' = IF AssessmentResponseSchema(r) THEN r
                          ELSE BadRequest(responseIssues(r))
    /\ pc' = "responded"
    /\ UNCHANGED <<config, body, validatedRequest, currentScore, timeline,
                   baseRecommendations, calls>>
    /\ UNCHANGED <<inflight, frontendVars>>

\* the handler has answered and its locals are gone; the server waits for
\* the next request
Done ==
    /\ pc = "responded"
    /\ pc' = "idle"
    /\ body' = NoBody
    /\ validatedRequest' = NoBody
    /\ currentScore' = NaN
    /\ timeline' = <<>>
    /\ baseRecommendations' = <<>>
    /\ aiOutcome' = NoOutcome
    /\ enhancedRecommendations' = <<>>
    /\ response' = NoResponse
    /\ calls' = NoCalls
    /\ UNCHANGED config
    /\ UNCHANGED <<inflight, frontendVars>>

Next ==
    \/ pc = "idle" /\ \E b \in Bodies : Receive(b)
    \/ Validate
    \/ Score
    \/ Timeline
    \/ CallAI
    \/ pc = "awaiting" /\ \E o \in AIOutcomes : AIReturn(o)
    \/ Done

Spec == Init /\ [][Next]_vars

\* the server started with annualRiseRate configured as 0
zeroRiseConfig == [sourceConfig EXCEPT !.baselineFloodParameters.annualRiseRate = 0]

InitZeroRise == config = zeroRiseConfig /\ InitHandler /\ InitPage

SpecZeroRise == InitZeroRise /\ [][Next]_vars

\* ------------------------------------- several requests in flight at once
\* Node runs a handler without interruption up to its await, so a request
\* is handled in two steps: everything before the external call, and
\* everything after it.  Requests interleave at the await only.
Scenario2 ==
    [foundationType |-> "SLAB_ON_GRADE", elevationAboveBFE |-> 0,
     currentBFE |-> 0, materials |-> <<"WOOD_FRAME">>, roofMaterial |-> "ASPHALT_SHINGLE",
     mitigationFeatures |-> <<>>, utilityProtection |-> FALSE,
     designDescription |-> NoDescription]

ConcurrentBodies ==
    {Scenario1,
     Scenario2,
     [Scenario1 EXCEPT !.elevationAboveBFE = 3 * FeetScale,
                       !.currentBFE = 8 * FeetScale + FeetScale \div 8],
     [Scenario2 EXCEPT !.materials = <<>>],
     [Scenario1 EXCEPT !.roofMaterial = "THATCH"]}

\* lines 16 to 28 of the handler for request i with body b: parse, score,
\* project, take the first entry's recommendations, issue the external call
Accept(i, b) ==
    /\ inflight[i].pc = "idle"
    /\ IF ~AssessmentRequestSchema(b)
       THEN /\ inflight' = [inflight EXCEPT ![i] =
                    [IdleSlot EXCEPT !.pc = "responded", !.body = b,
                                     !.response = BadRequest(requestIssues(b))]]
            /\ UNCHANGED config
       ELSE LET score == calculateCurrentScore(b, config)
                tl == generateTimeline(b, config)
            IN  /\ inflight' = [inflight EXCEPT ![i] =
                        IF Len(tl) > 0
                        THEN [pc |-> "awaiting", body |-> b,
                              validatedRequest |-> timelineRequestEffect(b, config),
                              currentScore |-> score, timeline |-> tl,
                              baseRecommendations |-> tl[1].recommendations,
                              response |-> NoResponse]
                        ELSE [IdleSlot EXCEPT !.pc = "responded", !.body = b,
                                              !.response = InternalError]]
                /\ config' = timelineConfigEffect(config)
    /\ UNCHANGED <<pc, body, validatedRequest, currentScore, timeline, baseRecommendations,
                   aiOutcome, enhancedRecommendations, response, calls>>
    /\ UNCHANGED frontendVars

\* the external call of request i settles and its handler runs on to the
\* answer, from its own locals
Settle(i, outcome) ==
    /\ inflight[i].pc = "awaiting"
    /\ LET mine == inflight[i]
           enhanced == generateEnhancedRecommendations(outcome, mine.baseRecommendations)
           r == [status |-> 200, currentScore |-> mine.currentScore,
                 timeline |-> mine.timeline, overallRecommendations |-> enhanced,
                 details |-> {}]
       IN  inflight' = [inflight EXCEPT ![i].pc = "responded",
                                        ![i].response =
                                            IF AssessmentResponseSchema(r) THEN r
                                            ELSE BadRequest(responseIssues(r))]
    /\ UNCHANGED <<config, pc, body, validatedRequest, currentScore, timeline,
                   baseRecommendations, aiOutcome, enhancedRecommendations, response, calls>>
    /\ UNCHANGED frontendVars

\* request i has been answered; its locals are gone
Release(i) ==
    /\ inflight[i].pc = "responded"
    /\ inflight' = [inflight EXCEPT ![i] = IdleSlot]
    /\ UNCHANGED <<config, pc, body, validatedRequest, currentScore, timeline,
                   baseRecommendations, aiOutcome, enhancedRecommendations, response, calls>>
    /\ UNCHANGED frontendVars

NextConcurrent ==
    \/ \E i \in Requests : \E b \in ConcurrentBodies : Accept(i, b)
    \/ \E i \in Requests : \E o \in AIOutcomes : Settle(i, o)
    \/ \E i \in Requests : Release(i)

SpecConcurrent == Init /\ [][NextConcurrent]_vars

\* ------------------------------------------------------ page.tsx: the form
DigitChars == <<"0", "1", "2", "3", "4", "5", "6", "7", "8", "9">>
IsDigit(c) == \E d \in 1..10 : DigitChars[d] = c
DigitValue(c) == (CHOOSE d \in 1..10 : DigitChars[d] = c) - 1

\* the longest run of digits a string starts with
RECURSIVE TakeDigits(_)
TakeDigits(str) ==
    IF str = <<>> \/ ~IsDigit(Head(str)) THEN <<>>
    ELSE <<Head(str)>> \o TakeDigits(Tail(str))

\* the number a run of digits writes
RECURSIVE ValueOf(_)
ValueOf(digits) ==
    IF digits = <<>> THEN 0
    ELSE ValueOf(SubSeq(digits, 1, Len(digits) - 1)) * 10 + DigitValue(digits[Len(digits)])

\* the digits after the point, in thousandths
Thousandths(digits) ==
    LET padded == digits \o <<"0", "0", "0">>
    IN  ValueOf(SubSeq(padded, 1, 3))

\* Number.parseFloat on a string without exponent part: an optional sign,
\* digits, an optional point and digits; NaN when no digit is found; what
\* follows the number is ignored. The value is in thousandths of a foot.
parseFloat(str) ==
    LET signed == str # <<>> /\ Head(str) \in {"-", "+"}
        unsigned == IF signed THEN Tail(str) ELSE str
        whole == TakeDigits(unsigned)
        rest == SubSeq(unsigned, Len(whole) + 1, Len(unsigned))
        fraction == IF rest # <<>> /\ Head(rest) = "." THEN TakeDigits(Tail(rest)) ELSE <<>>
        magnitude == ValueOf(whole) * FeetScale + Thousandths(fraction)
    IN  IF whole = <<>> /\ fraction = <<>> THEN NaN
        ELSE Num(IF signed /\ Head(str) = "-" THEN -magnitude ELSE magnitude)

\* x || 0 on a number: NaN and 0 are falsy
OrZero(x) == IF x.nan \/ x.v = 0 THEN 0 ELSE x.v

BelowBFEWarning == "Warning: Site elevation is below Base Flood Elevation - high flood risk!"

\* message.includes("Warning"): of the messages validateForm pushes only
\* the below-BFE one contains the word
IncludesWarning(message) == message = BelowBFEWarning

\* the errors validateForm collects, in the order it pushes them
validateFormErrors(form) ==
    LET siteElevationNum == OrZero(parseFloat(form.siteElevation))
        baseFloodElevationNum == OrZero(parseFloat(form.baseFloodElevation))
    IN  PushIf(siteElevationNum < 0, "Site elevation must be 0 or greater")
        \o PushIf(baseFloodElevationNum < 0, "Base flood elevation must be 0 or greater")
        \o PushIf(siteElevationNum < baseFloodElevationNum, BelowBFEWarning)
        \o PushIf(form.foundationType = "", "Foundation type is required")
        \o PushIf(form.roofMaterial = "", "Roof material is required")
        \o PushIf(form.floodZone = "", "Flood zone is required")
        \o PushIf(form.designDescription > DescriptionLimit,
                  "Design description must be 1000 characters or less")

\* what validateForm returns
validateForm(form) ==
    LET errors == validateFormErrors(form)
    IN  Len(errors) = 0 \/ (Len(errors) = 1 /\ IncludesWarning(errors[1]))

\* roofMaterialMapping[...]: undefined (written "") for any other key, and
\* JSON.stringify leaves an undefined property out
roofMaterialMapping(roof) ==
    CASE roof = "metal" -> "METAL"
      [] roof = "asphalt" -> "ASPHALT_SHINGLE"
      [] roof = "tile" -> "TILE"
      [] OTHER -> ""

\* the request built with the form's roof value passed through unmapped
backendRequestRoofUnmapped(form) ==
    LET siteElevationNum == OrZero(parseFloat(form.siteElevation))
        baseFloodElevationNum == OrZero(parseFloat(form.baseFloodElevation))
    IN  [foundationType |-> form.foundationType,
         elevationAboveBFE |-> Max(0, siteElevationNum - baseFloodElevationNum),
         currentBFE |-> baseFloodElevationNum,
         materials |-> <<"MIXED">>,
         roofMaterial |-> form.roofMaterial,
         mitigationFeatures |-> PushIf(form.floodVents, "FLOOD_VENTS")
                                \o PushIf(form.utilitiesProtected, "ELEVATED_UTILITIES"),
         utilityProtection |-> form.utilitiesProtected,
         designDescription |-> Description(form.designDescription)]

\* the body handleSubmit builds; its location key is not in the request
\* schema, which drops unknown keys
backendRequest(form) ==
    LET siteElevationNum == OrZero(parseFloat(form.siteElevation))
        baseFloodElevationNum == OrZero(parseFloat(form.baseFloodElevation))
    IN  [foundationType |-> form.foundationType,
         elevationAboveBFE |-> Max(0, siteElevationNum - baseFloodElevationNum),
         currentBFE |-> baseFloodElevationNum,
         materials |-> <<"MIXED">>,
         roofMaterial |-> roofMaterialMapping(form.roofMaterial),
         mitigationFeatures |-> PushIf(form.floodVents, "FLOOD_VENTS")
                                \o PushIf(form.utilitiesProtected, "ELEVATED_UTILITIES"),
         utilityProtection |-> form.utilitiesProtected,
         designDescription |-> Description(form.designDescription)]

\* ---------------------------------------------------- the browser's inputs
\* a form that passes validateForm: 12.5 ft on a BFE of 8.125 ft
FilledForm ==
    [foundationType |-> "PILE_FOUNDATION",
     siteElevation |-> <<"1", "2", ".", "5">>,
     baseFloodElevation |-> <<"8", ".", "1", "2", "5">>,
     roofMaterial |-> "asphalt", floodVents |-> TRUE, utilitiesProtected |-> FALSE,
     floodZone |-> "AE", designDescription |-> DescriptionLimit]

\* the forms the user leaves in the page: the filled form; the site below
\* the BFE (the warning alone); the flood zone missing (one error); both
\* (the warning and an error); the description one character too long
Forms ==
    {FilledForm,
     [FilledForm EXCEPT !.siteElevation = <<"5">>, !.utilitiesProtected = TRUE],
     [FilledForm EXCEPT !.floodZone = ""],
     [FilledForm EXCEPT !.siteElevation = <<"5">>, !.floodZone = ""],
     [FilledForm EXCEPT !.designDescription = DescriptionLimit + 1]}

\* what a number input can hold: nothing, or a valid number
NumberInputs ==
    {<<>>, <<"0">>, <<"1", "2", ".", "5">>, <<"8", ".", "1", "2", "5">>, <<"-", ".", "5">>}

\* every combination of field values
AllForms ==
    [foundationType : FoundationType \cup {""},
     siteElevation : NumberInputs,
     baseFloodElevation : NumberInputs,
     roofMaterial : {"", "metal", "asphalt", "tile"},
     floodVents : BOOLEAN,
     utilitiesProtected : BOOLEAN,
     floodZone : {"", "AE"},
     designDescription : {0, DescriptionLimit, DescriptionLimit + 1}]

\* how a fetch can settle: 200, 400, 500, a network failure, the timeout
Settlements ==
    {Resolves(200), Resolves(400), Resolves(500), Rejects("TypeError"), Rejects("AbortError")}

\* how response.json() can settle
JsonSettlements == {"parsed", "rejected"}

\* ------------------------------------------------- page.tsx: handleSubmit
\* updateFormData, field by field, until the form reads f
updateFormData(f) ==
    /\ formData' = f
    /\ page' = [page EXCEPT !.validationErrors = <<>>]
    /\ UNCHANGED <<submit, fetcher, health>>
    /\ UNCHANGED serverVars

\* the catch and finally blocks of handleSubmit
failedPage(p) ==
    [p EXCEPT !.toast = "Assessment Failed", !.isLoading = FALSE, !.loadingStep = ""]

\* handleSubmit that goes on to the backend whatever the health check said
handleSubmitIgnoringHealth ==
    /\ submit.pc = "idle"
    /\ LET errors == validateFormErrors(formData)
           validated == [page EXCEPT !.validationErrors = errors]
       IN  IF ~validateForm(formData)
           THEN /\ page' = validated
                /\ UNCHANGED <<submit, fetcher>>
           ELSE /\ page' = [validated EXCEPT !.isLoading = TRUE,
                                             !.loadingStep = "Calculating resilience scores..."]
                /\ submit' = [pc |-> "fetching", backendRequest |-> backendRequest(formData)]
                /\ fetcher' = [idleFetcher EXCEPT !.pc = "primary",
                                                  !.sent = <<getBackendUrl>>]
    /\ UNCHANGED <<formData, health>>
    /\ UNCHANGED serverVars

\* handleSubmit up to its first await: validateForm, setIsLoading(true), the
\* connectivity check, the request body, and the first fetch of
\* fetchWithFallback. The submit button is disabled while isLoading, so one
\* invocation runs at a time.
handleSubmit ==
    /\ submit.pc = "idle"
    /\ LET errors == validateFormErrors(formData)
           validated == [page EXCEPT !.validationErrors = errors]
       IN  IF ~validateForm(formData)
           THEN /\ page' = validated
                /\ UNCHANGED <<submit, fetcher>>
           ELSE IF page.backendConnected = "false"
                THEN /\ page' = failedPage([validated EXCEPT !.isLoading = TRUE])
                     /\ UNCHANGED <<submit, fetcher>>
                ELSE /\ page' = [validated EXCEPT
                                    !.isLoading = TRUE,
                                    !.loadingStep = "Calculating resilience scores..."]
                     /\ submit' = [pc |-> "fetching",
                                   backendRequest |-> backendRequest(formData)]
                     /\ fetcher' = [idleFetcher EXCEPT !.pc = "primary",
                                                       !.sent = <<getBackendUrl>>]
    /\ UNCHANGED <<formData, health>>
    /\ UNCHANGED serverVars

\* the primary fetch settles. An ok response is returned to handleSubmit,
\* which goes on to await response.json(); anything else is caught and the
\* fallback fetch is issued.
primarySettles(settlement) ==
    /\ fetcher.pc = "primary"
    /\ LET reply == Reply(getBackendUrl, settlement)
       IN  IF settlement.kind = "response" /\ Ok(reply)
           THEN /\ fetcher' = [fetcher EXCEPT !.pc = "returned", !.primary = settlement,
                                              !.returned = reply]
                /\ submit' = [submit EXCEPT !.pc = "reading"]
                /\ page' = [page EXCEPT !.loadingStep = "Generating AI recommendations..."]
           ELSE /\ fetcher' = [fetcher EXCEPT !.pc = "fallback", !.primary = settlement,
                                              !.sent = @ \o <<getFallbackUrl>>]
                /\ UNCHANGED <<submit, page>>
    /\ UNCHANGED <<formData, health>>
    /\ UNCHANGED serverVars

\* the fallback attempt without its ok check: whatever response arrives is
\* returned
fallbackSettlesUnchecked(settlement) ==
    /\ fetcher.pc = "fallback"
    /\ LET reply == Reply(getFallbackUrl, settlement)
       IN  IF settlement.kind = "response"
           THEN /\ fetcher' = [fetcher EXCEPT !.pc = "returned", !.fallback = settlement,
                                              !.returned = reply]
                /\ IF Ok(reply)
                   THEN /\ submit' = [submit EXCEPT !.pc = "reading"]
                        /\ page' = [page EXCEPT
                                       !.loadingStep = "Generating AI recommendations..."]
                   ELSE /\ submit' = idleSubmit
                        /\ page' = failedPage(page)
           ELSE /\ fetcher' = [fetcher EXCEPT !.pc = "thrown", !.fallback = settlement,
                                              !.thrown = ErrorOf("fallback", settlement)]
                /\ submit' = idleSubmit
                /\ page' = failedPage(page)
    /\ UNCHANGED <<formData, health>>
    /\ UNCHANGED serverVars

\* the fallback fetch settles. An ok response is returned to handleSubmit;
\* otherwise fetchWithFallback throws the fallback attempt's error, which
\* handleSubmit catches. handleSubmit's own !response.ok branch throws into
\* the same catch.
fallbackSettles(settlement) ==
    /\ fetcher.pc = "fallback"
    /\ LET reply == Reply(getFallbackUrl, settlement)
       IN  IF settlement.kind = "response" /\ Ok(reply)
           THEN /\ fetcher' = [fetcher EXCEPT !.pc = "returned", !.fallback = settlement,
                                              !.returned = reply]
                /\ submit' = [submit EXCEPT !.pc = "reading"]
                /\ page' = [page EXCEPT !.loadingStep = "Generating AI recommendations..."]
           ELSE /\ fetcher' = [fetcher EXCEPT !.pc = "thrown", !.fallback = settlement,
                                              !.thrown = ErrorOf("fallback", settlement)]
                /\ submit' = idleSubmit
                /\ page' = failedPage(page)
    /\ UNCHANGED <<formData, health>>
    /\ UNCHANGED serverVars

\* response.json() settles: setResult(data) and the success toast, or the
\* catch block; then the finally block
jsonSettles(settlement) ==
    /\ submit.pc = "reading"
    /\ page' = IF settlement = "parsed"
               THEN [page EXCEPT !.result = fetcher.returned,
                                 !.toast = "Assessment Complete",
                                 !.isLoading = FALSE, !.loadingStep = ""]
               ELSE failedPage(page)
    /\ submit' = idleSubmit
    /\ UNCHANGED <<formData, fetcher, health>>
    /\ UNCHANGED serverVars

\* ------------------------------------------- lib.api.ts: checkBackendHealth
\* setBackendConnected, setUsingFallback, setCurrentBackendUrl
withHealth(p, result) ==
    [p EXCEPT !.backendConnected = IF result.connected THEN "true" ELSE "false",
              !.usingFallback = result.usingFallback,
              !.currentBackendUrl = result.url]

\* the page mounts: useEffect calls checkBackendHealthStatus, which probes
\* the primary backend
mount ==
    /\ health.pc = "unmounted"
    /\ health' = [health EXCEPT !.pc = "primary", !.probes = <<getBackendUrl>>]
    /\ UNCHANGED <<formData, page, submit, fetcher>>
    /\ UNCHANGED serverVars

\* the primary probe settles: ok is reported at once, anything else goes on
\* to the fallback probe
healthPrimarySettles(settlement) ==
    /\ health.pc = "primary"
    /\ IF settlement.kind = "response" /\ Ok(Reply(getBackendUrl, settlement))
       THEN LET result == [connected |-> TRUE, url |-> getBackendUrl,
                           usingFallback |-> FALSE]
            IN  /\ health' = [health EXCEPT !.pc = "done", !.primary = settlement,
                                            !.result = result]
                /\ page' = withHealth(page, result)
       ELSE /\ health' = [health EXCEPT !.pc = "fallback", !.primary = settlement,
                                        !.probes = @ \o <<getFallbackUrl>>]
            /\ UNCHANGED page
    /\ UNCHANGED <<formData, submit, fetcher>>
    /\ UNCHANGED serverVars

\* the fallback probe outside a try block: its rejection leaves
\* checkBackendHealth, and checkBackendHealthStatus catches it
healthFallbackSettlesUncaught(settlement) ==
    /\ health.pc = "fallback"
    /\ LET result ==
               IF settlement.kind = "response" /\ Ok(Reply(getFallbackUrl, settlement))
               THEN [connected |-> TRUE, url |-> getFallbackUrl, usingFallback |-> TRUE]
               ELSE NoHealthResult
       IN  /\ health' = [health EXCEPT !.pc = "done", !.fallback = settlement,
                                       !.result = result,
                                       !.threw = settlement.kind = "reject"]
           /\ page' = withHealth(page, result)
    /\ UNCHANGED <<formData, submit, fetcher>>
    /\ UNCHANGED serverVars

\* the fallback probe settles: ok reports the fallback backend, anything
\* else (caught inside checkBackendHealth) reports no connection
healthFallbackSettles(settlement) ==
    /\ health.pc = "fallback"
    /\ LET result ==
               IF settlement.kind = "response" /\ Ok(Reply(getFallbackUrl, settlement))
               THEN [connected |-> TRUE, url |-> getFallbackUrl, usingFallback |-> TRUE]
               ELSE NoHealthResult
       IN  /\ health' = [health EXCEPT !.pc = "done", !.fallback = settlement,
                                       !.result = result]
           /\ page' = withHealth(page, result)
    /\ UNCHANGED <<formData, submit, fetcher>>
    /\ UNCHANGED serverVars

NextFrontend ==
    \/ \E f \in Forms : updateFormData(f)
    \/ handleSubmit
    \/ \E settlement \in Settlements : primarySettles(settlement)
    \/ \E settlement \in Settlements : fallbackSettles(settlement)
    \/ \E settlement \in JsonSettlements : jsonSettles(settlement)
    \/ mount
    \/ \E settlement \in Settlements : healthPrimarySettles(settlement)
    \/ \E settlement \in Settlements : healthFallbackSettles(settlement)

SpecFrontend == Init /\ [][NextFrontend]_vars

\* every fetch settles (each carries a timer that aborts it) and so does
\* the reading of a response body
FairFrontend ==
    /\ WF_vars(\E settlement \in Settlements : primarySettles(settlement))
    /\ WF_vars(\E settlement \in Settlements : fallbackSettles(settlement))
    /\ WF_vars(\E settlement \in JsonSettlements : jsonSettles(settlement))

SpecFrontendFair == SpecFrontend /\ FairFrontend

\* the page opened with any form content, submitted without the health
\* check having answered
InitForm ==
    /\ config = sourceConfig
    /\ InitHandler
    /\ formData \in AllForms
    /\ page = initialPage
    /\ submit = idleSubmit
    /\ fetcher = idleFetcher
    /\ health = unmountedHealth

NextForm ==
    \/ handleSubmit
    \/ \E settlement \in Settlements : primarySettles(settlement)
    \/ \E settlement \in Settlements : fallbackSettles(settlement)
    \/ \E settlement \in JsonSettlements : jsonSettles(settlement)

SpecForm == InitForm /\ [][NextForm]_vars

\* ================================================================= claims
Scored == calls.score > 0
Projected == calls.timeline > 0
Answered == pc = "responded"
InRange(x) == ~x.nan /\ 0 <= x.v /\ x.v <= 100 * ScoreScale

\* C1: for every input the request schema accepts, calculateCurrentScore
\* returns a number in the closed range [0,100].
C1_ScoreInRange == Scored => InRange(currentScore)

\* the external call gave nothing usable: it threw, carried no content, or
\* its content holds no non-blank line
EnhancerUnusable(o) ==
    \/ o.type \in {"throw", "nocontent"}
    \/ o.type = "content" /\ FilterNonBlank(Split(o.content)) = <<>>

\* C2: fallback law: when the external call throws or returns an empty or
\* unparseable result, overallRecommendations in the response equals the
\* earliest timeline entry's recommendations, element for element.
C2_FallbackLaw ==
    (Answered /\ response.status = 200 /\ EnhancerUnusable(aiOutcome))
        => response.overallRecommendations = timeline[1].recommendations

\* C3: a request that passed validation ends in a success response whatever
\* the outcome of the external call, never in a 4xx or 5xx.
C3_ValidatedRequestSucceeds ==
    (Answered /\ AssessmentRequestSchema(body)) => response.status = 200

\* C4: in every successful response overallRecommendations is non-empty.
C4_OverallRecommendationsNonEmpty ==
    (Answered /\ response.status = 200) => Len(response.overallRecommendations) > 0

\* C5: generateRecommendations returns a non-empty list for every valid
\* input (here: one with materials), so every timeline entry has at least
\* one recommendation.
C5_EntryRecommendationsNonEmpty ==
    (Projected /\ Len(validatedRequest.materials) > 0) =>
        \A i \in 1..Len(timeline) : Len(timeline[i].recommendations) > 0

ConfiguredYears ==
    {config.baselineFloodParameters.simulationYears[i] :
        i \in 1..Len(config.baselineFloodParameters.simulationYears)}

\* C6: the timeline has exactly one entry per configured simulation year
\* (2025, 2030, ..., 2055) and is strictly ascending by year, whatever the
\* order of the configured list.
C6_TimelineOrdered ==
    Projected =>
        /\ ConfiguredYears = {2025, 2030, 2035, 2040, 2045, 2050, 2055}
        /\ Len(timeline) = Cardinality(ConfiguredYears)
        /\ \A y \in ConfiguredYears :
              Cardinality({i \in 1..Len(timeline) : timeline[i].year = y}) = 1
        /\ \A i \in 1..Len(timeline) : \A j \in 1..Len(timeline) :
              i < j => timeline[i].year < timeline[j].year

\* the timeline was built from a year list that was not configured in order
C6_Witness ==
    /\ Projected
    /\ Len(timeline) = 7
    /\ config.baselineFloodParameters.simulationYears[1] = 2040
    /\ timeline[1].year = 2025

\* the factor tables as the specification lists them
SpecFoundationScore ==
    ("SLAB_ON_GRADE" :> 40) @@ ("PIER_AND_BEAM" :> 60)
    @@ ("PILE_FOUNDATION" :> 80) @@ ("ELEVATED_FOUNDATION" :> 100)
SpecMaterialScore ==
    ("CONCRETE" :> 100) @@ ("STEEL_FRAME" :> 80) @@ ("MASONRY" :> 70)
    @@ ("WOOD_FRAME" :> 60) @@ ("MIXED" :> 50)
SpecRoofScore ==
    ("METAL" :> 80) @@ ("TILE" :> 75) @@ ("ASPHALT_SHINGLE" :> 50)
SpecMitigationScore ==
    ("WATERPROOFING" :> 25) @@ ("FLOOD_VENTS" :> 20) @@ ("BACKFLOW_PREVENTION" :> 20)
    @@ ("ELEVATED_UTILITIES" :> 20) @@ ("FLOOD_BARRIERS" :> 15)

RECURSIVE SpecSum(_, _, _)
SpecSum(s, i, table) ==
    IF i > Len(s) THEN 0 ELSE table[s[i]] + SpecSum(s, i + 1, table)

\* the specification's total for a request with n = Len(materials) > 0,
\* multiplied by 10 * n * FeetScale so that it is an integer:
\*   min(10*elev,100)*0.40 + foundation*0.20
\*   + (mean(materials)*0.7 + roof*0.3)*0.15
\*   + min(sum(mitigation),100)*0.15 + (utility ? 100 : 0)*0.10
SpecTotalTimes(request) ==
    LET n == Len(request.materials)
        tenth == FeetScale \div 100
    IN  n * ( Min(10 * request.elevationAboveBFE, 100 * FeetScale) * 4
            + tenth * ( SpecFoundationScore[request.foundationType] * 200
                      + SpecRoofScore[request.roofMaterial] * 45
                      + Min(SpecSum(request.mitigationFeatures, 1, SpecMitigationScore), 100) * 150
                      + (IF request.utilityProtection THEN 100 ELSE 0) * 100))
        + tenth * 105 * SpecSum(request.materials, 1, SpecMaterialScore)

IsScenario1(request) ==
    /\ request.foundationType = "ELEVATED_FOUNDATION"
    /\ request.elevationAboveBFE = 10 * FeetScale
    /\ request.materials = <<"CONCRETE">>
    /\ request.roofMaterial = "METAL"
    /\ request.mitigationFeatures = AllFeatures
    /\ request.utilityProtection

IsScenario2(request) ==
    /\ request.foundationType = "SLAB_ON_GRADE"
    /\ request.elevationAboveBFE = 0
    /\ request.materials = <<"WOOD_FRAME">>
    /\ request.roofMaterial = "ASPHALT_SHINGLE"
    /\ request.mitigationFeatures = <<>>
    /\ ~request.utilityProtection

C8_ElevationMonotone ==
    (Scored /\ Len(validatedRequest.materials) > 0) =>
        \A e \in Elevations :
            LET other == [validatedRequest EXCEPT !.elevationAboveBFE = e]
                otherScore == calculateCurrentScore(other, config)
            IN  /\ e >= validatedRequest.elevationAboveBFE => Le(currentScore, otherScore)
                /\ (e >= 10 * FeetScale /\ validatedRequest.elevationAboveBFE >= 10 * FeetScale)
                      => /\ elevationScore(other) = 100 * SubScale
                         /\ elevationScore(validatedRequest) = 100 * SubScale
                         /\ otherScore = currentScore

\* a building exactly 10 ft above BFE has been scored; 11 ft is the input
\* it is compared with
C8_Witness ==
    /\ pc = "scored"
    /\ Len(validatedRequest.materials) > 0
    /\ validatedRequest.elevationAboveBFE = 10 * FeetScale
    /\ 11 * FeetScale \in Elevations

C10_EmptyMaterialsRejected ==
    /\ ~calls.emptyMean
    /\ (Answered /\ body.materials = <<>>)
          => (response.status = 400 /\ "materials" \in response.details)

\* C11: a request whose designDescription is longer than 1000 characters is
\* rejected with HTTP 400 and is never scored or passed to the enhancer.
C11_LongDescriptionRejected ==
    (Answered /\ body.designDescription.defined
              /\ body.designDescription.length > DescriptionLimit)
        => (response.status = 400 /\ calls = NoCalls)

\* a value outside the enumerated sets, or a negative elevation or BFE
OutsideDomain(b) ==
    \/ b.foundationType \notin FoundationType
    \/ b.roofMaterial \notin RoofMaterialType
    \/ \E i \in 1..Len(b.materials) : b.materials[i] \notin MaterialType
    \/ \E i \in 1..Len(b.mitigationFeatures) : b.mitigationFeatures[i] \notin MitigationFeature
    \/ b.elevationAboveBFE < 0
    \/ b.currentBFE < 0

\* every key the scorer looks up is a key of its factor table
KeysRecognized(request) ==
    /\ request.foundationType \in DOMAIN foundationScores
    /\ request.roofMaterial \in DOMAIN roofMaterialScores
    /\ \A i \in 1..Len(request.materials) : request.materials[i] \in DOMAIN materialScores
    /\ \A i \in 1..Len(request.mitigationFeatures) :
          request.mitigationFeatures[i] \in DOMAIN mitigationFeatureScores

\* C12: a request with a value outside the enumerated sets, or a negative
\* elevationAboveBFE or currentBFE, is rejected with HTTP 400 and never
\* scored; the scorer never looks up an unrecognized key.
C12_InvalidValuesRejected ==
    /\ (Answered /\ OutsideDomain(body)) => (response.status = 400 /\ calls = NoCalls)
    /\ pc \in {"validated", "scored", "timelined", "awaiting"}
          => (KeysRecognized(validatedRequest) /\ ~OutsideDomain(validatedRequest))
    /\ Scored => KeysRecognized(validatedRequest)

\* a request with a negative elevation has been answered with 400, its
\* issue naming the field
C12_Witness ==
    /\ Answered
    /\ body.elevationAboveBFE < 0
    /\ response.status = 400
    /\ response.details = {"elevationAboveBFE"}

\* C13: the handler answers 400 exactly when the request body fails request
\* validation; every other failure is answered with 500, never with 400.
C13_BadRequestIffMalformed ==
    Answered => (response.status = 400 <=> ~AssessmentRequestSchema(body))

\* C14: for each request that passes validation the external model call is
\* issued exactly once, with no retry after a failure and no second call on
\* any path.
C14_ExternalCallOnce ==
    /\ calls.ai <= 1
    /\ pc = "awaiting" => calls.ai = 1
    /\ Answered => calls.ai = (IF AssessmentRequestSchema(body) THEN 1 ELSE 0)

\* the one call failed and the request was answered all the same
C14_Witness ==
    /\ Answered
    /\ aiOutcome = Throws
    /\ calls.ai = 1
    /\ response.status = 200

\* C15: concurrent requests are independent: with several requests in
\* flight, interleaving at the await, the currentScore and timeline of each
\* response are what the request produces alone, and no step of one request
\* writes the config or the locals of another request.
C15_RequestsIndependent ==
    /\ [](\A i \in Requests :
            (inflight[i].pc = "responded" /\ inflight[i].response.status = 200) =>
                /\ inflight[i].response.currentScore
                      = calculateCurrentScore(inflight[i].body, config)
                /\ inflight[i].response.timeline = generateTimeline(inflight[i].body, config))
    /\ [][/\ config' = config
          /\ \A i \in Requests : \A j \in Requests :
                (i # j /\ inflight'[i] # inflight[i]) => inflight'[j] = inflight[j]]_vars

\* request 1 has been answered while request 2, with another body, was
\* waiting for its external call
C15_Witness ==
    /\ inflight[1].pc = "responded"
    /\ inflight[1].response.status = 200
    /\ inflight[2].pc = "awaiting"
    /\ inflight[1].body # inflight[2].body
    /\ config.baselineFloodParameters.simulationYears # simulationYears

Hundredth == FeetScale \div 100
Abs(x) == IF x < 0 THEN -x ELSE x

\* C16 as stated: with annualRiseRate configured as 0, every timeline
\* entry's projectedBFE equals the input currentBFE and every timeline
\* entry's score equals currentScore.
C16_FlatTimelineExact ==
    (Projected /\ config.baselineFloodParameters.annualRiseRate = 0) =>
        \A i \in 1..Len(timeline) :
            /\ timeline[i].projectedBFE = validatedRequest.currentBFE
            /\ timeline[i].score = currentScore

\* C16 as amended: with annualRiseRate configured as 0, every timeline
\* entry's projectedBFE is the input currentBFE rounded to the nearest
\* hundredth of a foot (currentBFE itself when it has at most two
\* decimals), and every timeline entry's score equals currentScore.
C16_FlatTimelineRounded ==
    (Projected /\ config.baselineFloodParameters.annualRiseRate = 0) =>
        \A i \in 1..Len(timeline) :
            /\ timeline[i].projectedBFE % Hundredth = 0
            /\ 2 * Abs(timeline[i].projectedBFE - validatedRequest.currentBFE) <= Hundredth
            /\ validatedRequest.currentBFE % Hundredth = 0
                  => timeline[i].projectedBFE = validatedRequest.currentBFE
            /\ timeline[i].score = currentScore

\* a building half a foot above a BFE of 8.125 ft has been projected to
\* 2055 with no rise: 8.13 ft in every entry, the score unchanged
C16_Witness ==
    /\ Projected
    /\ config.baselineFloodParameters.annualRiseRate = 0
    /\ validatedRequest.elevationAboveBFE = FeetScale \div 2
    /\ validatedRequest.currentBFE = 8 * FeetScale + FeetScale \div 8
    /\ Len(timeline) = 7
    /\ timeline[7].year = 2055
    /\ timeline[7].projectedBFE = 8 * FeetScale + 13 * Hundredth
    /\ ~currentScore.nan
    /\ timeline[7].score = currentScore

\* what is left of a score, in units of 1/ScoreScale, once the elevation,
\* foundation, mitigation and utility terms are taken away: the term that
\* carries the materials weight
MaterialsComponent(request, score, cfg) ==
    score.v - ( elevationScore(request) * 10 * cfg.scoringWeights.elevation
              + foundationScores[request.foundationType] * SubScale * 10
                    * cfg.scoringWeights.foundationType
              + mitigationScore(request) * 10 * cfg.scoringWeights.mitigationFeatures
              + utilityScore(request) * 10 * cfg.scoringWeights.utilityProtection)

C18_NothingRunsBeforeBadRequest ==
    /\ (calls.score > 0 \/ calls.timeline > 0 \/ calls.ai > 0) => AssessmentRequestSchema(body)
    /\ (Answered /\ response.status = 400) => calls = NoCalls

\* how many lines of a list come from a template
Count(recs, kind) == Cardinality({k \in 1..Len(recs) : recs[k].kind = kind})

\* the place of a template in the fixed order; the severity lines come first
Rank(kind) ==
    CASE kind \in {"CRITICAL", "WARNING"} -> 0
      [] kind = "ELEVATE" -> 1
      [] kind = "FOUNDATION" -> 2
      [] kind = "MATERIALS" -> 3
      [] kind = "ROOF" -> 4
      [] kind = "METAL_PAIR" -> 5
      [] kind = "UTILITY" -> 6

\* the elevation generateRecommendations is given for a year
EffectiveElevation(request, year, cfg) ==
    LET rise == (year - 2025) * cfg.baselineFloodParameters.annualRiseRate
    IN  IF request.elevationAboveBFE - rise > 0 THEN request.elevationAboveBFE - rise ELSE 0

Once(cond) == IF cond THEN 1 ELSE 0

\* C19: generateRecommendations emits each rule's line exactly when its
\* condition holds on the input it is given, at most once, in the fixed
\* order after any severity line; the roof-upgrade and metal-pairing lines
\* never appear together; scenario 2 gets the CRITICAL, foundation,
\* materials, roof and utility lines.
C19_RulesFireExactly ==
    Projected =>
        \A i \in 1..Len(timeline) :
            LET recs == timeline[i].recommendations
                req == validatedRequest
            IN  /\ Count(recs, "ELEVATE")
                     = Once(EffectiveElevation(req, timeline[i].year, config) < 3 * FeetScale)
                /\ Count(recs, "FOUNDATION") = Once(req.foundationType = "SLAB_ON_GRADE")
                /\ Count(recs, "MATERIALS")
                     = Once(\E k \in 1..Len(req.materials) : req.materials[k] = "WOOD_FRAME")
                /\ Count(recs, "ROOF") = Once(req.roofMaterial = "ASPHALT_SHINGLE")
                /\ Count(recs, "METAL_PAIR")
                     = Once(req.roofMaterial = "METAL" /\ req.foundationType = "SLAB_ON_GRADE")
                /\ Count(recs, "UTILITY") = Once(~req.utilityProtection)
                /\ \A k \in 1..Len(recs) : \A l \in 1..Len(recs) :
                      k < l => Rank(recs[k].kind) < Rank(recs[l].kind)
                /\ ~(Count(recs, "ROOF") > 0 /\ Count(recs, "METAL_PAIR") > 0)
                /\ (IsScenario2(req) /\ timeline[i].year = 2025) =>
                      \A kind \in {"CRITICAL", "FOUNDATION", "MATERIALS", "ROOF", "UTILITY"} :
                          Count(recs, kind) = 1

\* scenario 2 has been projected: its 2025 entry carries the CRITICAL line
\* and the five rule lines that apply to it
C19_Witness ==
    /\ Projected
    /\ IsScenario2(validatedRequest)
    /\ timeline[1].year = 2025
    /\ timeline[1].recommendations
         = <<CRITICAL, ElevateLine(validatedRequest.currentBFE), FoundationLine,
             MaterialsLine, RoofLine, UtilityLine>>

\* C20: in every timeline entry the severity line agrees with the entry's
\* own score: the list starts with CRITICAL iff score < 60, starts with
\* WARNING iff 60 <= score < 75, contains neither iff score >= 75, and never
\* contains both.
C20_SeverityMatchesScore ==
    Projected =>
        \A i \in 1..Len(timeline) :
            LET recs == timeline[i].recommendations
                score == timeline[i].score
                critical == Num(config.thresholds.criticalScore * ScoreScale)
                warning == Num(config.thresholds.warningScore * ScoreScale)
            IN  /\ (Len(recs) > 0 /\ recs[1] = CRITICAL) <=> Lt(score, critical)
                /\ (Len(recs) > 0 /\ recs[1] = WARNING)
                      <=> (Le(critical, score) /\ Lt(score, warning))
                /\ (Count(recs, "CRITICAL") = 0 /\ Count(recs, "WARNING") = 0)
                      <=> Le(warning, score)
                /\ ~(Count(recs, "CRITICAL") > 0 /\ Count(recs, "WARNING") > 0)

\* the projection of the documented formula, not rounded
ExactProjection(request, year, cfg) ==
    request.currentBFE + (year - 2025) * cfg.baselineFloodParameters.annualRiseRate

\* the original request with only its elevation replaced
WithElevation(request, elevation) ==
    [foundationType |-> request.foundationType,
     elevationAboveBFE |-> elevation,
     currentBFE |-> request.currentBFE,
     materials |-> request.materials,
     roofMaterial |-> request.roofMaterial,
     mitigationFeatures |-> request.mitigationFeatures,
     utilityProtection |-> request.utilityProtection,
     designDescription |-> request.designDescription]

\* C21 as stated: for every simulation year Y the entry's projectedBFE is
\* currentBFE + (Y - 2025) * annualRiseRate, and its score and
\* recommendations are computed from the original input with only
\* elevationAboveBFE replaced by max(0, elevationAboveBFE - (projectedBFE -
\* currentBFE)), which is never negative.
C21_ProjectionExact ==
    Projected =>
        \A i \in 1..Len(timeline) :
            LET req == validatedRequest
                e == timeline[i]
                elevation == Max(0, req.elevationAboveBFE - (e.projectedBFE - req.currentBFE))
                adjusted == WithElevation(req, elevation)
            IN  /\ e.projectedBFE = ExactProjection(req, e.year, config)
                /\ elevation >= 0
                /\ e.score = calculateCurrentScore(adjusted, config)
                /\ e.recommendations
                     = generateRecommendations(adjusted, ExactProjection(req, e.year, config),
                                               config)

\* C21 as amended: for every simulation year Y the entry's projectedBFE is
\* currentBFE + (Y - 2025) * annualRiseRate rounded to two decimals, and its
\* score and recommendations are computed from the original input with only
\* elevationAboveBFE replaced by max(0, elevationAboveBFE - (Y - 2025) *
\* annualRiseRate), the rise not rounded; that elevation is never negative.
C21_ProjectionRounded ==
    Projected =>
        \A i \in 1..Len(timeline) :
            LET req == validatedRequest
                e == timeline[i]
                exact == ExactProjection(req, e.year, config)
                elevation == Max(0, req.elevationAboveBFE - (exact - req.currentBFE))
                adjusted == WithElevation(req, elevation)
            IN  /\ e.projectedBFE % Hundredth = 0
                /\ 2 * Abs(e.projectedBFE - exact) <= Hundredth
                /\ exact % Hundredth = 0 => e.projectedBFE = exact
                /\ elevation >= 0
                /\ e.score = calculateCurrentScore(adjusted, config)
                /\ e.recommendations = generateRecommendations(adjusted, exact, config)

\* a building half a foot above a BFE of 8.125 ft projected to 2055: the
\* BFE has risen by more than the building's margin, the entry reports
\* 11.13 ft and is scored with elevation 0
C21_Witness ==
    /\ Projected
    /\ validatedRequest.elevationAboveBFE = FeetScale \div 2
    /\ validatedRequest.currentBFE = 8 * FeetScale + FeetScale \div 8
    /\ Len(validatedRequest.materials) > 0
    /\ Len(timeline) = 7
    /\ timeline[7].year = 2055
    /\ config.baselineFloodParameters.annualRiseRate > 0
    /\ timeline[7].projectedBFE = 11 * FeetScale + 13 * Hundredth
    /\ timeline[7].score = calculateCurrentScore(WithElevation(validatedRequest, 0), config)
    /\ timeline[7].score # currentScore

\* C22: given a positive annualRiseRate, projectedBFE is non-decreasing
\* along the timeline: of two entries the one with the later year has a
\* projectedBFE at least as large.
C22_ProjectedBFENonDecreasing ==
    (Projected /\ config.baselineFloodParameters.annualRiseRate > 0) =>
        \A a \in 1..Len(timeline) : \A b \in 1..Len(timeline) :
            timeline[a].year < timeline[b].year
                => timeline[a].projectedBFE <= timeline[b].projectedBFE

\* a timeline built from a year list configured out of order, with a
\* positive rate: the 2055 entry lies above the 2025 entry
C22_Witness ==
    /\ Projected
    /\ config.baselineFloodParameters.annualRiseRate > 0
    /\ config.baselineFloodParameters.simulationYears[1] = 2040
    /\ Len(timeline) = 7
    /\ timeline[1].year = 2025
    /\ timeline[7].year = 2055
    /\ timeline[1].projectedBFE < timeline[7].projectedBFE

\* C23: calculateCurrentScore, generateTimeline and generateRecommendations
\* leave their input request and the shared configuration unchanged: no
\* step writes the configuration, and the steps that call them (the scoring
\* and the projection of a validated request) leave every field of the
\* request as it was.
C23_InputsUnchanged ==
    [][/\ config' = config
       /\ pc \in {"validated", "scored"} => validatedRequest' = validatedRequest]_vars

\* the request has been scored and projected from a year list that is not
\* in order; the later entries were scored on adjusted copies, and the
\* request still is the body that was validated
C23_Witness ==
    /\ pc = "timelined"
    /\ Scored
    /\ Projected
    /\ validatedRequest = body
    /\ validatedRequest.elevationAboveBFE = 3 * FeetScale
    /\ config.baselineFloodParameters.simulationYears
         = <<2040, 2025, 2055, 2030, 2050, 2035, 2045>>
    /\ Len(validatedRequest.materials) > 0
    /\ timeline[7].score # timeline[1].score

\* C24 as stated: with the configured year list (earliest year 2025) the
\* first timeline entry of a response describes the unmodified building: its
\* year is 2025, its projectedBFE equals the input currentBFE and its score
\* equals currentScore in the same response.
C24_FirstEntryIsToday ==
    (Answered /\ response.status = 200) =>
        /\ response.timeline[1].year = 2025
        /\ response.timeline[1].projectedBFE = body.currentBFE
        /\ response.timeline[1].score = response.currentScore

\* C24 as amended: with the configured year list (earliest year 2025) the
\* first timeline entry of a response has year 2025, its projectedBFE is the
\* input currentBFE rounded to two decimals (currentBFE itself when it has
\* at most two decimals) and its score equals currentScore in the same
\* response.
C24_FirstEntryIsTodayRounded ==
    (Answered /\ response.status = 200) =>
        /\ response.timeline[1].year = 2025
        /\ response.timeline[1].projectedBFE % Hundredth = 0
        /\ 2 * Abs(response.timeline[1].projectedBFE - body.currentBFE) <= Hundredth
        /\ body.currentBFE % Hundredth = 0
              => response.timeline[1].projectedBFE = body.currentBFE
        /\ response.timeline[1].score = response.currentScore

\* a 200 response for a site whose BFE is 8.125 ft, the years configured
\* out of order: the first entry is 2025 at 8.13 ft, and later entries score
\* lower than the first
C24_Witness ==
    /\ Answered
    /\ response.status = 200
    /\ body.currentBFE = 8 * FeetScale + FeetScale \div 8
    /\ config.baselineFloodParameters.simulationYears[1] # 2025
    /\ response.timeline[1].year = 2025
    /\ response.timeline[1].projectedBFE = 8 * FeetScale + 13 * Hundredth
    /\ response.timeline[1].score = response.currentScore
    /\ response.timeline[2].score # response.currentScore

\* C25: with a non-negative annualRiseRate timeline scores never increase
\* over time: of two entries the one with the later year has a score at
\* most as large, and no timeline score exceeds currentScore.
C25_ScoresNeverIncrease ==
    (Projected /\ config.baselineFloodParameters.annualRiseRate >= 0) =>
        /\ \A a \in 1..Len(timeline) : \A b \in 1..Len(timeline) :
              timeline[a].year < timeline[b].year
                  => Le(timeline[b].score, timeline[a].score)
        /\ \A a \in 1..Len(timeline) : Le(timeline[a].score, currentScore)

\* the severity a list carries: 0 none, 1 WARNING, 2 CRITICAL
Severity(recs) ==
    IF Count(recs, "CRITICAL") > 0 THEN 2
    ELSE IF Count(recs, "WARNING") > 0 THEN 1 ELSE 0

RuleKinds == {"ELEVATE", "FOUNDATION", "MATERIALS", "ROOF", "METAL_PAIR", "UTILITY"}

\* C26: with a non-negative annualRiseRate rule-based advice never
\* disappears in later years: every non-severity recommendation kind
\* present in a timeline entry is present in every later entry, the
\* severity never weakens (none, then WARNING, then CRITICAL) and the
\* number of recommendations per entry is non-decreasing in year.
C26_AdviceNeverDisappears ==
    (Projected /\ config.baselineFloodParameters.annualRiseRate >= 0) =>
        \A a \in 1..Len(timeline) : \A b \in 1..Len(timeline) :
            timeline[a].year < timeline[b].year =>
                LET early == timeline[a].recommendations
                    late == timeline[b].recommendations
                IN  /\ \A kind \in RuleKinds : Count(early, kind) > 0 => Count(late, kind) > 0
                    /\ Severity(early) <= Severity(late)
                    /\ Len(early) <= Len(late)

\* a building three feet above the BFE whose 2025 entry has the WARNING
\* line and no elevation line, and whose 2055 entry has the CRITICAL line
\* and the elevation line
C26_Witness ==
    /\ Projected
    /\ config.baselineFloodParameters.annualRiseRate > 0
    /\ Len(timeline) = 7
    /\ timeline[1].year = 2025
    /\ timeline[7].year = 2055
    /\ validatedRequest.elevationAboveBFE = 3 * FeetScale
    /\ Severity(timeline[1].recommendations) = 1
    /\ Count(timeline[1].recommendations, "ELEVATE") = 0
    /\ Severity(timeline[7].recommendations) = 2
    /\ Count(timeline[7].recommendations, "ELEVATE") = 1
    /\ Len(timeline[1].recommendations) < Len(timeline[7].recommendations)

\* an attempt that did not yield an ok response: a rejection (network
\* error, timeout abort) or a response whose status is not 2xx
Failed(settlement) ==
    \/ settlement.kind = "reject"
    \/ settlement.kind = "response" /\ settlement.status \notin 200..299
Succeeded(settlement) == settlement.kind = "response" /\ settlement.status \in 200..299

\* C27: fetchWithFallback tries the primary backend first and contacts the
\* fallback only after the primary attempt failed, at most once; it issues
\* at most two requests per call, returns only responses whose ok flag is
\* true, and throws the fallback attempt's error when both attempts fail, so
\* its caller never holds a non-ok response.
C27_FallbackAfterPrimaryFailure ==
    /\ Len(fetcher.sent) <= 2
    /\ fetcher.pc # "idle" => fetcher.sent[1] = getBackendUrl
    /\ fetcher.pc = "primary" => fetcher.sent = <<getBackendUrl>>
    /\ Len(fetcher.sent) = 2 =>
          (fetcher.sent[2] = getFallbackUrl /\ Failed(fetcher.primary))
    /\ Succeeded(fetcher.primary) => fetcher.sent = <<getBackendUrl>>
    /\ fetcher.pc = "returned" =>
          /\ Ok(fetcher.returned)
          /\ \/ Succeeded(fetcher.primary) /\ fetcher.returned.url = getBackendUrl
             \/ Succeeded(fetcher.fallback) /\ fetcher.returned.url = getFallbackUrl
    /\ fetcher.pc = "thrown" =>
          /\ Failed(fetcher.primary)
          /\ Failed(fetcher.fallback)
          /\ fetcher.thrown = ErrorOf("fallback", fetcher.fallback)
    /\ (Failed(fetcher.primary) /\ Failed(fetcher.fallback)) => fetcher.pc = "thrown"
    /\ submit.pc = "reading" => (fetcher.pc = "returned" /\ Ok(fetcher.returned))

\* the primary attempt was aborted by its timer, the fallback answered 500:
\* two requests, and the error thrown is the fallback's HTTP 500
C27_Witness ==
    /\ fetcher.pc = "thrown"
    /\ fetcher.sent = <<getBackendUrl, getFallbackUrl>>
    /\ fetcher.primary = Rejects("AbortError")
    /\ fetcher.fallback = Resolves(500)
    /\ fetcher.thrown = [attempt |-> "fallback", message |-> "HTTP", status |-> 500]
    /\ submit.pc = "idle"

\* C28: checkBackendHealth never throws and reports consistently: connected
\* iff the primary health check returned ok or, failing that, the fallback
\* did; usingFallback iff the primary did not return ok and the fallback
\* did; url is the primary URL when connected without fallback, the
\* fallback URL when usingFallback, empty when not connected; the fallback
\* is probed only when the primary did not return ok. The page's state
\* takes the reported values.
C28_HealthReportConsistent ==
    /\ ~health.threw
    /\ Len(health.probes) = 2 =>
          (health.probes[2] = getFallbackUrl /\ Failed(health.primary))
    /\ health.pc \in {"primary", "fallback", "done"} => health.probes[1] = getBackendUrl
    /\ Succeeded(health.primary) => health.probes = <<getBackendUrl>>
    /\ health.pc = "done" =>
          LET primaryOk == Succeeded(health.primary)
              fallbackOk == Succeeded(health.fallback)
              r == health.result
          IN  /\ r.connected <=> (primaryOk \/ (~primaryOk /\ fallbackOk))
              /\ r.usingFallback <=> (~primaryOk /\ fallbackOk)
              /\ (r.connected /\ ~r.usingFallback) => r.url = getBackendUrl
              /\ r.usingFallback => r.url = getFallbackUrl
              /\ ~r.connected => r.url = ""
              /\ page.backendConnected = (IF r.connected THEN "true" ELSE "false")
              /\ page.usingFallback = r.usingFallback
              /\ page.currentBackendUrl = r.url
    /\ health.pc # "done" => page.backendConnected = "null"

\* the primary probe failed on the network and the fallback answered ok:
\* connected through the fallback
C28_Witness ==
    /\ health.pc = "done"
    /\ health.probes = <<getBackendUrl, getFallbackUrl>>
    /\ health.primary = Rejects("TypeError")
    /\ health.fallback = Resolves(200)
    /\ health.result = [connected |-> TRUE, url |-> getFallbackUrl, usingFallback |-> TRUE]
    /\ page.backendConnected = "true"
    /\ page.usingFallback

\* C29: in the submit flow no request is sent when validateForm fails or
\* when the health check has marked the backend as not connected; every
\* submission that starts loading ends with isLoading false and loadingStep
\* empty, whatever its outcome; and result is replaced only by a successful
\* response.
C29_SubmitFlow ==
    /\ [][(fetcher.pc # "primary" /\ fetcher'.pc = "primary") =>
             (validateForm(formData) /\ page.backendConnected # "false")]_vars
    /\ [][fetcher' # fetcher => (fetcher'.pc = "primary" \/ page.isLoading)]_vars
    /\ [][page'.result # page.result =>
             (submit.pc = "reading" /\ Ok(fetcher.returned)
              /\ page'.result = fetcher.returned)]_vars
    /\ [](submit.pc = "idle" => (~page.isLoading /\ page.loadingStep = ""))
    /\ [](page.isLoading => submit.pc # "idle")
    /\ (page.isLoading ~> (~page.isLoading /\ page.loadingStep = ""))

\* a valid form was submitted after the health check had found no backend:
\* the failure toast is up, loading is over and no request was ever sent
C29_Witness ==
    /\ validateForm(formData)
    /\ page.backendConnected = "false"
    /\ page.toast = "Assessment Failed"
    /\ fetcher.sent = <<>>
    /\ submit.pc = "idle"
    /\ ~page.isLoading
    /\ page.loadingStep = ""
    /\ page.result = NoResult

\* no element of a list occurs twice
NoDuplicates(list) ==
    \A i \in 1..Len(list) : \A j \in 1..Len(list) : list[i] = list[j] => i = j

====
